---- MODULE Spec2Model ----
(***************************************************************************)
(* Model of the Terminal repository's plan-to-action pipeline              *)
(* (agent/terminal_agent.py, execute_primary_action) and of its MCP        *)
(* backend services (mcp_servers/fs, mcp_servers/fetch,                    *)
(* mcp_servers/python).                                                    *)
(*                                                                         *)
(* Text is a sequence of symbols.  A symbol is one character (":", ";",    *)
(* a backquote, a newline) or one word that the code only ever looks at    *)
(* as a whole (a marker line, a tool name, a language tag, a command       *)
(* word).  The Python string operations are modelled on these sequences.   *)
(***************************************************************************)
EXTENDS Integers, Sequences, FiniteSets, TLC

\* ------------------------------------------------------------------------
\* Bounds
\* ------------------------------------------------------------------------
\* Number of chunks an action block body is built from.
MaxChunks == 3

\* Number of symbols of a code string sent to execute_python.
MaxCodeLen == 3

\* ------------------------------------------------------------------------
\* Python str operations on symbol sequences
\* ------------------------------------------------------------------------
\* s[i:].startswith(m)
MatchAt(s, m, i) ==
    /\ i >= 1
    /\ i + Len(m) - 1 <= Len(s)
    /\ \A k \in 1..Len(m) : s[i + k - 1] = m[k]

\* s.startswith(m)
StartsWith(s, m) == MatchAt(s, m, 1)

\* m in s
Contains(s, m) == \E i \in 1..(Len(s) + 1) : MatchAt(s, m, i)

\* s.find(m) as a 1-based index, 0 when absent
Find(s, m) ==
    IF Contains(s, m)
    THEN CHOOSE i \in 1..(Len(s) + 1) :
            MatchAt(s, m, i) /\ \A j \in 1..(i - 1) : ~MatchAt(s, m, j)
    ELSE 0

\* s.split(m): the list of parts, left to right, occurrences not overlapping
RECURSIVE PySplit(_, _)
PySplit(s, m) ==
    LET i == Find(s, m)
    IN  IF i = 0
        THEN << s >>
        ELSE << SubSeq(s, 1, i - 1) >>
                \o PySplit(SubSeq(s, i + Len(m), Len(s)), m)

\* s.replace(old, new): every non-overlapping occurrence, left to right
RECURSIVE PyReplace(_, _, _)
PyReplace(s, old, new) ==
    IF s = << >>
    THEN << >>
    ELSE IF MatchAt(s, old, 1)
         THEN new \o PyReplace(SubSeq(s, Len(old) + 1, Len(s)), old, new)
         ELSE << Head(s) >> \o PyReplace(Tail(s), old, new)

Whitespace == { " ", "\n", "\t" }

RECURSIVE LStrip(_)
LStrip(s) ==
    IF s # << >> /\ Head(s) \in Whitespace THEN LStrip(Tail(s)) ELSE s

RECURSIVE RStrip(_)
RStrip(s) ==
    IF s # << >> /\ s[Len(s)] \in Whitespace
    THEN RStrip(SubSeq(s, 1, Len(s) - 1))
    ELSE s

\* s.strip()
Strip(s) == RStrip(LStrip(s))

\* str.lower() of one symbol
LowerSym(c) ==
    CASE c = "Rationale"     -> "rationale"
      [] c = "No command"    -> "no command"
      [] c = "SELECT"        -> "select"
      [] c = "SYSTEM_SQLITE" -> "system_sqlite"
      [] c = "SHELL_COMMAND" -> "shell_command"
      [] OTHER               -> c

\* s.lower()
Lower(s) == [ i \in 1..Len(s) |-> LowerSym(s[i]) ]

\* ------------------------------------------------------------------------
\* agent/terminal_agent.py : configuration
\* ------------------------------------------------------------------------
HOST_URL == "http://172.18.0.1"

TOOLS == <<
    [ name |-> "SHELL_COMMAND", port |-> 8001, endpoint |-> "/execute_shell" ],
    [ name |-> "SYSTEM_SQLITE", port |-> 8002, endpoint |-> "/execute_query" ],
    [ name |-> "PYTHON_EVAL",   port |-> 8003, endpoint |-> "/execute_python" ],
    [ name |-> "FETCH_WEB",     port |-> 8004, endpoint |-> "/fetch_url" ] >>

\* next(t for t in TOOLS if t['name'] == tool_name)
ToolByName(tool_name) ==
    TOOLS[ CHOOSE i \in 1..Len(TOOLS) :
              /\ TOOLS[i].name = tool_name
              /\ \A j \in 1..(i - 1) : TOOLS[j].name # tool_name ]

\* f"{HOST_URL}:{mcp['port']}{mcp['endpoint']}"
UrlOf(mcp) == << HOST_URL, mcp.port, mcp.endpoint >>

\* The two literal section markers of the plan text.
PRIMARY_MARKER  == << "### PRIMARY ACTION (Executable):" >>
FALLBACK_MARKER == << "### FALLBACK STEPS (Hierarchy):" >>

\* The backquote character (written as a word: the character itself is not
\* accepted inside a TLA+ string).
BQ == "BACKQUOTE"

FENCE      == << BQ, BQ, BQ >>
FENCE_SQL  == << BQ, BQ, BQ, "sql" >>
FENCE_BASH == << BQ, BQ, BQ, "bash" >>

\* ------------------------------------------------------------------------
\* State
\* ------------------------------------------------------------------------
VARIABLES
    \* agent/terminal_agent.py, one run of execute_primary_action
    plan,       \* plan_output, the text handed to execute_primary_action
    pc,         \* position of the run: "start", "dispatch", "waiting", "done"
    action,     \* what the parser extracted (tool_name, command, mcp, api_data)
    sent,       \* the requests.post calls issued so far, in order
    received,   \* what came back for each of them, in order
    result,     \* the value the run returned
    raised,     \* the exception that escaped the run, "none" otherwise
    post_clock, \* time the run has waited in requests.post so far
    \* mcp_servers/fs/server.py
    fs_db,        \* the committed content of each database file
    fs_request,   \* the request of the last execute_query call
    fs_response,  \* its response
    fs_trace,     \* what that call did: statement run by cursor.execute, conn.commit ran
    \* mcp_servers/fetch/server.py
    fetch_request,   \* the request of the last fetch_url call
    fetch_response,  \* its response
    fetch_outbound,  \* the outbound GET requests that call issued
    \* mcp_servers/python/server.py
    py_request,   \* the request of the last execute_python call
    py_response,  \* its response
    py_execed,    \* whether that call handed the code to exec
    \* mcp_servers/shell/server.py, one execute_shell call
    sh_request,   \* the request
    sh_pc,        \* position of the handler: "start", "waiting", "done"
    sh_proc,      \* the spawned process: "none", "running", "exited", "reaped"
    sh_clock,     \* time waited in asyncio.wait_for so far
    sh_trace,     \* what the handler did: timed out, called kill, awaited wait
    sh_response,  \* the response
    \* the process that holds the agent module and the MCP client class
    tools,     \* agent/terminal_agent.py: the module-level list TOOLS
    servers,   \* test_mcp_client.py: the class attribute MCP.servers
    runs,      \* the runs of execute_primary_action under way, one record each
    mcp_call,  \* the last MCP.call: its argument, its requests, its outcome
    \* memory/memory_db.py, one MemoryDB and its database file
    mem_table,  \* the rows of the table memories
    mem_seq,    \* the largest id AUTOINCREMENT has given out
    mem_trace,  \* the ids tombstone_memory was called with, and those it found
    mem_last    \* the last call and what it returned

agentVars == << plan, pc, action, sent, received, result, raised, post_clock >>

fsVars == << fs_db, fs_request, fs_response, fs_trace >>

fetchVars == << fetch_request, fetch_response, fetch_outbound >>

pyVars == << py_request, py_response, py_execed >>

shVars == << sh_request, sh_pc, sh_proc, sh_clock, sh_trace, sh_response >>

clientVars == << tools, servers, runs, mcp_call >>

memVars == << mem_table, mem_seq, mem_trace, mem_last >>

vars == << agentVars, fsVars, fetchVars, pyVars, shVars, clientVars, memVars >>

\* ------------------------------------------------------------------------
\* agent/terminal_agent.py : execute_primary_action, the parser
\* ------------------------------------------------------------------------
NoAction == [ tool_name |-> "none", command |-> << >>, mcp |-> "none",
              api_data |-> "none" ]
NoResult == [ key |-> "none" ]

\* return {"result": "Could not parse PRIMARY ACTION from LLM output. ..."}
CouldNotParse ==
    [ key |-> "result", msg |-> "Could not parse PRIMARY ACTION", block |-> << >> ]

\* return {"result": f"Primary Action is a rationale only (...). Action: {action_block}"}
RationaleOnly(action_block) ==
    [ key |-> "result", msg |-> "rationale only", block |-> action_block ]

\* Faulty variant of UnknownCommandFormat: the action block left out of the message.
UnknownCommandFormat_NoBlock(action_block) ==
    [ key |-> "result", msg |-> "unknown command format", block |-> << >> ]

\* return {"result": f"Primary Action is an unknown command format. ... Action: {action_block}"}
UnknownCommandFormat(action_block) ==
    [ key |-> "result", msg |-> "unknown command format", block |-> action_block ]

\* Faulty variant of MarkerMissing: the marker test left out.
MarkerMissing_Omitted(plan_output) == FALSE

\* "### PRIMARY ACTION (Executable):" not in plan_output
MarkerMissing(plan_output) == ~Contains(plan_output, PRIMARY_MARKER)

\* Faulty variant of PrimarySection: the fallback section not cut off.
PrimarySection_Uncut(parts) == parts[2]

\* plan_output.split(PRIMARY)[1].split(FALLBACK)[0], before .strip();
\* parts is plan_output.split(PRIMARY), of length 2 at least
PrimarySection(parts) == PySplit(parts[2], FALLBACK_MARKER)[1]

\* action_block.replace(fence_lang, "").replace(fence, "")
\*             .replace(f"{tool_name}:", "").strip()
CleanCommand(action_block, fence_lang, tool_name) ==
    Strip(PyReplace(PyReplace(PyReplace(action_block, fence_lang, << >>),
                              FENCE, << >>),
                    << tool_name, ":" >>, << >>))

\* The if / elif chain on action_block.
ClassifyBlock(action_block) ==
    IF StartsWith(action_block, FENCE_SQL)
          \/ Contains(action_block, << "SYSTEM_SQLITE" >>)
    THEN LET command == CleanCommand(action_block, FENCE_SQL, "SYSTEM_SQLITE")
         IN  [ kind |-> "action",
               action |-> [ tool_name |-> "SYSTEM_SQLITE",
                            command   |-> command,
                            mcp       |-> ToolByName("SYSTEM_SQLITE"),
                            api_data  |-> [ query |-> command ] ] ]
    ELSE IF StartsWith(action_block, FENCE_BASH)
               \/ Contains(action_block, << "SHELL_COMMAND" >>)
    THEN LET command == CleanCommand(action_block, FENCE_BASH, "SHELL_COMMAND")
         IN  [ kind |-> "action",
               action |-> [ tool_name |-> "SHELL_COMMAND",
                            command   |-> command,
                            mcp       |-> ToolByName("SHELL_COMMAND"),
                            api_data  |-> [ command |-> command ] ] ]
    ELSE IF Contains(Lower(action_block), << "rationale" >>)
               \/ Contains(Lower(action_block), << "no command" >>)
    THEN [ kind |-> "return", value |-> RationaleOnly(action_block) ]
    ELSE [ kind |-> "return", value |-> UnknownCommandFormat(action_block) ]

\* Lines 124-155: everything execute_primary_action does before the request.
\* An index past the end of a split list raises IndexError.
ParseAction(plan_output) ==
    IF MarkerMissing(plan_output)
    THEN [ kind |-> "return", value |-> CouldNotParse ]
    ELSE LET parts == PySplit(plan_output, PRIMARY_MARKER)
         IN  IF Len(parts) < 2
             THEN [ kind |-> "raise", exc |-> "IndexError" ]
             ELSE ClassifyBlock(Strip(PrimarySection(parts)))

\* ------------------------------------------------------------------------
\* agent/terminal_agent.py : execute_primary_action, the request
\* ------------------------------------------------------------------------
\* requests.post(url, json=api_data, timeout=10)
PostTimeout == 10

NoExc == [ class |-> "none", status |-> 0 ]

\* What one requests.post call can meet: a response with a status and a body
\* that is JSON or not, a refused / unresolved connection, or no answer
\* within the timeout.
BackendReplies ==
    { [ kind |-> "http", status |-> st, json |-> TRUE ] :
          st \in { 200, 400, 403, 429, 503 } }
    \cup { [ kind |-> "http", status |-> 200, json |-> FALSE ],
           [ kind |-> "ConnectionError", status |-> 0, json |-> FALSE ],
           [ kind |-> "Timeout", status |-> 0, json |-> FALSE ] }

\* response.raise_for_status(): HTTPError for 4xx and 5xx
RaiseForStatus(reply) == reply.status >= 400 /\ reply.status < 600

\* The exception the body of the try block raises for a reply, NoExc if none:
\* requests.post raises on a transport failure, raise_for_status on an error
\* status, response.json() on a body that is not JSON.
TryBlockException(reply) ==
    IF reply.kind # "http"
    THEN [ class |-> reply.kind, status |-> 0 ]
    ELSE IF RaiseForStatus(reply)
    THEN [ class |-> "HTTPError", status |-> reply.status ]
    ELSE IF ~reply.json
    THEN [ class |-> "JSONDecodeError", status |-> 0 ]
    ELSE NoExc

\* Faulty variant of Caught: except requests.exceptions.ConnectionError.
Caught_ConnectionOnly(exc_class) == exc_class \in { "ConnectionError" }

\* except requests.exceptions.RequestException: the classes it covers
Caught(exc_class) ==
    exc_class \in { "HTTPError", "ConnectionError", "Timeout", "JSONDecodeError" }

\* return response.json()
ResponseJson(reply) ==
    [ key |-> "body", status |-> reply.status ]

\* return {"error": f"Failed to connect to {mcp['name']} ({url}). ... Error: {e}"}
FailedToConnect(mcp, url, e) ==
    [ key |-> "error", msg |-> "Failed to connect to", tool |-> mcp.name,
      url |-> url, exc |-> e ]

\* ------------------------------------------------------------------------
\* Plan texts
\* ------------------------------------------------------------------------
\* The pieces an action block is made of.
Chunks ==
    { FENCE_SQL \o << "\n" >>,
      FENCE_BASH \o << "\n" >>,
      << "\n" >> \o FENCE,
      << "ls" >>,
      << "SELECT", ";" >>,
      << "SYSTEM_SQLITE" >>,
      << "SHELL_COMMAND" >>,
      << ":" >>,
      << "Rationale" >> }

RECURSIVE BodiesUpTo(_)
BodiesUpTo(n) ==
    IF n = 0
    THEN { << >> }
    ELSE LET shorter == BodiesUpTo(n - 1)
         IN  shorter \cup { b \o c : b \in shorter, c \in Chunks }

Bodies == BodiesUpTo(MaxChunks)

\* Texts of a fallback section; "rm" and "DROP" occur nowhere else.
FallbackTexts ==
    { << "\n" >> \o FENCE_BASH \o << "\n", "rm", "\n" >> \o FENCE,
      << "\n", "SYSTEM_SQLITE", ":", "DROP", ";" >> }

FallbackWords == { "rm", "DROP" }

\* A body alone (no marker), a primary section, a primary section followed
\* by a fallback section, and a fallback section placed first.
Plans ==
    Bodies
    \cup { PRIMARY_MARKER \o << "\n" >> \o b : b \in Bodies }
    \cup { PRIMARY_MARKER \o << "\n" >> \o b \o << "\n" >> \o FALLBACK_MARKER \o f :
               b \in Bodies, f \in FallbackTexts }
    \cup { FALLBACK_MARKER \o f \o << "\n" >> \o PRIMARY_MARKER \o << "\n" >> \o b :
               b \in Bodies, f \in FallbackTexts }

backendVars == << fsVars, fetchVars, pyVars, shVars >>

\* ------------------------------------------------------------------------
\* mcp_servers/fs/server.py : execute_query
\* ------------------------------------------------------------------------
\* DB_PATHS
DB_PATHS == [ system |-> "/app/system.db", memory |-> "/app/memory.db" ]

\* The rows a table can hold.
Rows == { "r1", "r2" }

\* The database files as the service finds them.
FsInitialDb == [ system |-> { "r1" }, memory |-> { "r1", "r2" } ]

\* dict.get(key, default)
Get(request, key, default) ==
    IF key \in DOMAIN request THEN request[key] ELSE default

\* str.upper() of one symbol
UpperSym(c) ==
    CASE c = "select" -> "SELECT"
      [] c = "Select" -> "SELECT"
      [] c = "delete" -> "DELETE"
      [] c = "insert" -> "INSERT"
      [] OTHER        -> c

\* s.upper()
Upper(s) == [ i \in 1..Len(s) |-> UpperSym(s[i]) ]

\* query.upper().startswith("SELECT")
IsSelect(query) == StartsWith(Upper(query), << "SELECT" >>)

\* The words of a statement, white space dropped.
Words(query) == SelectSeq(query, LAMBDA c : c \notin Whitespace)

\* cursor.execute(query) on a database holding the given rows: the rows
\* read, the rows the database holds afterwards, or an sqlite3.Error.
\* Keywords are case-insensitive; one trailing ";" is accepted.
SqliteExecute(rows, query) ==
    LET w0 == Upper(Words(query))
        w  == IF w0 # << >> /\ w0[Len(w0)] = ";"
              THEN SubSeq(w0, 1, Len(w0) - 1) ELSE w0
    IN  IF w = << "SELECT" >>
        THEN [ ok |-> TRUE, fetched |-> rows, rows |-> rows ]
        ELSE IF Len(w) = 2 /\ w[1] = "INSERT" /\ w[2] \in Rows \ rows
        THEN [ ok |-> TRUE, fetched |-> {}, rows |-> rows \cup { w[2] } ]
        ELSE IF Len(w) = 2 /\ w[1] = "DELETE" /\ w[2] \in Rows
        THEN [ ok |-> TRUE, fetched |-> {}, rows |-> rows \ { w[2] } ]
        ELSE [ ok |-> FALSE, fetched |-> {}, rows |-> rows ]

\* raise HTTPException(status, detail)
HttpError(status, detail) ==
    [ status |-> status, detail |-> detail, results |-> {} ]

\* The whole handler: the response, the database content afterwards, and
\* whether cursor.execute ran the statement (sqlite3 accepted it) and
\* whether conn.commit ran.
ExecuteQuery(db, request) ==
    LET db_name == Get(request, "db_name", "system")
        query   == Strip(Get(request, "query", << >>))
        quiet   == [ executed |-> FALSE, committed |-> FALSE ]
    IN  IF query = << >>
        THEN [ response |-> HttpError(400, "Query cannot be empty"),
               db |-> db, trace |-> quiet ]
        ELSE IF db_name \notin DOMAIN DB_PATHS
        THEN [ response |-> HttpError(400, "Unknown database"),
               db |-> db, trace |-> quiet ]
        ELSE IF db_name \notin DOMAIN db
        THEN [ response |-> HttpError(500, "Database file missing"),
               db |-> db, trace |-> quiet ]
        ELSE LET run == SqliteExecute(db[db_name], query)
             IN  IF ~run.ok
                 THEN [ response |-> HttpError(400, "Database error"),
                        db |-> db, trace |-> quiet ]
                 ELSE IF IsSelect(query)
                 THEN [ response |-> [ status |-> 200, detail |-> "success",
                                       results |-> run.fetched ],
                        db |-> db,
                        trace |-> [ executed |-> TRUE, committed |-> FALSE ] ]
                 ELSE [ response |-> [ status |-> 200, detail |-> "executed",
                                       results |-> {} ],
                        db |-> [ db EXCEPT ![db_name] = run.rows ],
                        trace |-> [ executed |-> TRUE, committed |-> TRUE ] ]

\* Query texts.
Queries ==
    { << >>, << " " >>, << "garbage" >> }
    \cup { lead \o << verb >> \o arg \o term :
              lead \in { << >>, << " " >> },
              verb \in { "SELECT", "select", "DELETE", "delete", "INSERT" },
              arg  \in { << >>, << " ", "r1" >>, << " ", "r2" >> },
              term \in { << >>, << ";" >> } }

\* Request bodies: any subset of the two fields.
FsRequests ==
    { [ query |-> q ] : q \in Queries }
    \cup { [ query |-> q, db_name |-> n ] :
              q \in Queries, n \in { "system", "memory", "other" } }
    \cup { [ db_name |-> "system" ] }

NoFsTrace == [ executed |-> FALSE, committed |-> FALSE ]

\* No call yet.
NoRequest  == [ none |-> TRUE ]
NoResponse == [ status |-> 0, detail |-> "none", results |-> {} ]

FsIdle ==
    /\ fs_db = FsInitialDb
    /\ fs_request = NoRequest
    /\ fs_response = NoResponse
    /\ fs_trace = NoFsTrace

\* The service starts on its database files; one of them may be missing.
FsInit ==
    /\ fs_db \in { FsInitialDb, [ system |-> FsInitialDb.system ] }
    /\ fs_request = NoRequest
    /\ fs_response = NoResponse
    /\ fs_trace = NoFsTrace

\* POST /execute_query
execute_query ==
    /\ \E request \in FsRequests :
          LET out == ExecuteQuery(fs_db, request)
          IN  /\ fs_request' = request
              /\ fs_response' = out.response
              /\ fs_db' = out.db
              /\ fs_trace' = out.trace
    /\ UNCHANGED << agentVars, clientVars, memVars, fetchVars, pyVars, shVars >>

\* The agent's variables while a backend is looked at on its own.
AgentIdle ==
    /\ plan = << >>
    /\ pc = "idle"
    /\ action = NoAction
    /\ sent = << >>
    /\ received = << >>
    /\ result = NoResult
    /\ raised = "none"
    /\ post_clock = 0

FsNext == execute_query

\* C8: execute_query answers 400 to every request whose query does not begin
\* with SELECT (case-insensitive), the empty string included, and neither
\* executes nor commits it: the database content never changes.
C8_OnlySelectRuns ==
    /\ fs_db \in { FsInitialDb, [ system |-> FsInitialDb.system ] }
    /\ (fs_response # NoResponse
           /\ ~StartsWith(Upper(Strip(Get(fs_request, "query", << >>))),
                          << "SELECT" >>)) =>
          /\ fs_response.status = 400
          /\ ~fs_trace.executed
          /\ ~fs_trace.committed


\* ------------------------------------------------------------------------
\* mcp_servers/fetch/server.py : fetch_url
\* ------------------------------------------------------------------------
\* FetchRequest.timeout default
FetchDefaultTimeout == 30

\* "localhost" in request.url or "127.0.0.1" in request.url
IsLocalUrl(url) ==
    \/ Contains(url, << "localhost" >>)
    \/ Contains(url, << "127", ".", "0", ".", "0", ".", "1" >>)

\* What the outbound client.get / raise_for_status can meet: a good answer,
\* or an exception of one of these classes (raise_for_status raises
\* HTTPStatusError for an error status of the remote server).
RemoteOutcomes ==
    { "ok", "ConnectTimeout", "ReadTimeout", "ConnectError",
      "TooManyRedirects", "HTTPStatusError", "InvalidURL" }

\* The base class of each exception class the except clauses can be handed.
HttpxBase ==
    [ ConnectTimeout   |-> "TimeoutException",
      ReadTimeout      |-> "TimeoutException",
      TimeoutException |-> "TransportError",
      ConnectError     |-> "NetworkError",
      NetworkError     |-> "TransportError",
      TransportError   |-> "RequestError",
      TooManyRedirects |-> "RequestError",
      RequestError     |-> "HTTPError",
      HTTPStatusError  |-> "HTTPError",
      HTTPError        |-> "Exception",
      InvalidURL       |-> "Exception" ]

\* isinstance(e, base) for e of class cls: what an except clause tests
RECURSIVE IsInstance(_, _)
IsInstance(cls, base) ==
    \/ cls = base
    \/ cls \in DOMAIN HttpxBase /\ IsInstance(HttpxBase[cls], base)

\* Faulty variant of FetchResponse: except httpx.RequestError tried first.
FetchResponse_RequestErrorFirst(outcome) ==
    IF outcome = "ok"
    THEN [ status |-> 200, detail |-> "success" ]
    ELSE IF IsInstance(outcome, "RequestError")
    THEN [ status |-> 502, detail |-> "request error" ]
    ELSE IF IsInstance(outcome, "TimeoutException")
    THEN [ status |-> 408, detail |-> "timed out" ]
    ELSE [ status |-> 500, detail |-> "unexpected error" ]

\* The response for an outbound outcome: the return of lines 28-34, or the
\* first except clause of lines 36-41 that matches the exception.
FetchResponse(outcome) ==
    IF outcome = "ok"
    THEN [ status |-> 200, detail |-> "success" ]
    ELSE IF IsInstance(outcome, "TimeoutException")
    THEN [ status |-> 408, detail |-> "timed out" ]
    ELSE IF IsInstance(outcome, "RequestError")
    THEN [ status |-> 502, detail |-> "request error" ]
    ELSE [ status |-> 500, detail |-> "unexpected error" ]

Forbidden == [ status |-> 403, detail |-> "local network forbidden" ]

\* Hosts, as symbol sequences.
FetchHosts ==
    { << "localhost" >>, << "LOCALHOST" >>, << "example.com" >>,
      << "[::1]" >>,
      << "127", ".", "0", ".", "0", ".", "1" >>,
      << "127", ".", "0", ".", "0", ".", "2" >>,
      << "127", ".", "1" >>,
      << "172", ".", "18", ".", "0", ".", "1" >> }

\* What follows the host: nothing, a port, a path, a path naming a host.
FetchTails ==
    { << >>, << ":", "8002" >>, << "/" >>, << "/", "localhost" >> }

FetchUrls ==
    { << "http://" >> \o h \o t : h \in FetchHosts, t \in FetchTails }

\* Request bodies: the timeout left to its default or given.
FetchRequests ==
    { [ url |-> u, timeout |-> t ] :
          u \in FetchUrls, t \in { FetchDefaultTimeout, 5 } }

NoFetchResponse == [ status |-> 0, detail |-> "none" ]

FetchIdle ==
    /\ fetch_request = NoRequest
    /\ fetch_response = NoFetchResponse
    /\ fetch_outbound = << >>

FetchInit == FetchIdle

\* POST /fetch_url
fetch_url ==
    /\ \E request \in FetchRequests, outcome \in RemoteOutcomes :
          /\ fetch_request' = request
          /\ IF IsLocalUrl(request.url)
             THEN /\ fetch_response' = Forbidden
                  /\ fetch_outbound' = << >>
             ELSE /\ fetch_response' = FetchResponse(outcome)
                  /\ fetch_outbound' =
                        << [ url |-> request.url, timeout |-> request.timeout,
                             met |-> outcome ] >>
    /\ UNCHANGED << agentVars, clientVars, memVars, fsVars, pyVars, shVars >>

FetchNext == fetch_url

\* The host of a url: what stands between the scheme and the port or path.
HostOf(url) ==
    LET rest == Tail(url)
        ends == { i \in 1..Len(rest) : rest[i] \in { ":", "/" } }
    IN  IF ends = {} THEN rest
        ELSE SubSeq(rest, 1, (CHOOSE i \in ends : \A j \in ends : i <= j) - 1)

\* 'localhost', a 127.x.x.x address, ::1
IsLoopbackHost(h) ==
    \/ h \in { << "localhost" >>, << "[::1]" >> }
    \/ Len(h) = 7 /\ h[1] = "127"

\* C9: fetch_url answers 403 to every request whose host is localhost or a
\* loopback literal (127.x.x.x, ::1) and issues no outbound request for it.
C9_LoopbackRejected ==
    (fetch_response # NoFetchResponse
        /\ IsLoopbackHost(HostOf(fetch_request.url))) =>
        /\ fetch_response.status = 403
        /\ fetch_outbound = << >>

\* C21: the fetch backend tells the three outbound failures apart: a timeout
\* is answered 408, never 502 or 500; another network or request error 502;
\* an error status of the remote server a status that is neither.
C21_FetchFailuresClassified ==
    \A k \in 1..Len(fetch_outbound) :
        LET met == fetch_outbound[k].met
        IN  /\ met \in { "ConnectTimeout", "ReadTimeout" } =>
                   fetch_response.status = 408
            /\ met \in { "ConnectError", "TooManyRedirects" } =>
                   fetch_response.status = 502
            /\ met = "HTTPStatusError" =>
                   fetch_response.status \notin { 200, 408, 502 }

C21_Witness ==
    /\ Len(fetch_outbound) = 1
    /\ fetch_outbound[1].met = "ReadTimeout"
    /\ fetch_request.url = << "http://", "example.com", "/" >>
    /\ fetch_response.status = 408


\* ------------------------------------------------------------------------
\* mcp_servers/python/server.py : execute_python
\* ------------------------------------------------------------------------
\* ['os.', 'sys.', 'open(', 'import ', 'while', 'def']
RestrictedKeywords ==
    { << "os", "." >>, << "sys", "." >>, << "open", "(" >>,
      << "import", " " >>, << "while" >>, << "def" >> }

\* any(keyword in code for keyword in [...])
HasRestrictedKeyword(code) ==
    \E keyword \in RestrictedKeywords : Contains(code, keyword)

\* The scope dict with name bound to value.
Bind(scope, name, value) ==
    [ n \in DOMAIN scope \cup { name } |->
          IF n = name THEN value ELSE scope[n] ]

\* One line of code run in the scope: an assignment binds its variable, a
\* blank line does nothing, anything else raises (an indented statement, an
\* import without __import__ in the builtins, a name that is not bound, a
\* syntax error).
ExecLine(scope, line) ==
    LET stmt == RStrip(line)
    IN  IF stmt = << >>
        THEN [ ok |-> TRUE, scope |-> scope ]
        ELSE IF stmt = << "result=1" >>
        THEN [ ok |-> TRUE, scope |-> Bind(scope, "result", "1") ]
        ELSE IF stmt = << "output=2" >>
        THEN [ ok |-> TRUE, scope |-> Bind(scope, "output", "2") ]
        ELSE [ ok |-> FALSE, scope |-> scope ]

RECURSIVE ExecLines(_, _)
ExecLines(scope, lines) ==
    IF lines = << >>
    THEN [ ok |-> TRUE, scope |-> scope ]
    ELSE LET first == ExecLine(scope, Head(lines))
         IN  IF first.ok THEN ExecLines(first.scope, Tail(lines)) ELSE first

\* local_scope = {}
EmptyScope == [ n \in {} |-> "" ]

\* exec(code, {'__builtins__': None}, local_scope)
Exec(code) == ExecLines(EmptyScope, PySplit(code, << "\n" >>))

\* "Code executed but no explicit 'result' variable found."
NoResultFound == "no explicit 'result' variable found"

\* Faulty variant of RunCode: 'output' looked up before 'result'.
RunCode_OutputFirst(code) ==
    LET run == Exec(code)
    IN  IF ~run.ok
        THEN [ status |-> 400, output |-> "Python Execution Error" ]
        ELSE IF "output" \in DOMAIN run.scope
        THEN [ status |-> 200, output |-> run.scope["output"] ]
        ELSE IF "result" \in DOMAIN run.scope
        THEN [ status |-> 200, output |-> run.scope["result"] ]
        ELSE [ status |-> 200, output |-> NoResultFound ]

\* The handler after the keyword test: lines 18-30.
RunCode(code) ==
    LET run == Exec(code)
    IN  IF ~run.ok
        THEN [ status |-> 400, output |-> "Python Execution Error" ]
        ELSE IF "result" \in DOMAIN run.scope
        THEN [ status |-> 200, output |-> run.scope["result"] ]
        ELSE IF "output" \in DOMAIN run.scope
        THEN [ status |-> 200, output |-> run.scope["output"] ]
        ELSE [ status |-> 200, output |-> NoResultFound ]

Restricted == [ status |-> 403, output |-> "Restricted keyword found" ]

\* The symbols of a code string.
CodeSymbols ==
    { "import", " ", "\t", "\n", "os", "sys", ".", "open", "(", "while", "def",
      "result=1", "output=2" }

RECURSIVE CodesUpTo(_)
CodesUpTo(n) ==
    IF n = 0
    THEN { << >> }
    ELSE LET shorter == CodesUpTo(n - 1)
         IN  shorter \cup { c \o << x >> : c \in shorter, x \in CodeSymbols }

PyRequests == { [ code |-> c ] : c \in CodesUpTo(MaxCodeLen) }

NoPyResponse == [ status |-> 0, output |-> "none" ]

PyIdle ==
    /\ py_request = NoRequest
    /\ py_response = NoPyResponse
    /\ py_execed = FALSE

\* A request has arrived and waits for its handler.
PyInit ==
    /\ py_request \in PyRequests
    /\ py_response = NoPyResponse
    /\ py_execed = FALSE

\* POST /execute_python
execute_python ==
    /\ py_request # NoRequest
    /\ py_response = NoPyResponse
    /\ IF HasRestrictedKeyword(py_request.code)
       THEN /\ py_response' = Restricted
            /\ py_execed' = FALSE
       ELSE /\ py_response' = RunCode(py_request.code)
            /\ py_execed' = TRUE
    /\ UNCHANGED py_request
    /\ UNCHANGED << agentVars, clientVars, memVars, fsVars, fetchVars, shVars >>

PyNext == execute_python

\* The code holds an import statement: the keyword at the start of a line,
\* white space, a module name.
HasImportStatement(code) ==
    \E i \in 1..Len(code), j \in 1..Len(code) :
        /\ code[i] = "import"
        /\ i = 1 \/ code[i - 1] = "\n"
        /\ j > i + 1
        /\ \A k \in (i + 1)..(j - 1) : code[k] \in { " ", "\t" }
        /\ code[j] \in { "os", "sys" }

\* C10: execute_python answers 403, before any execution, to every code
\* string that holds an import statement or another token of the denylist;
\* such code never reaches exec.
C10_DenylistedNeverRuns ==
    (py_response # NoPyResponse
        /\ (HasImportStatement(py_request.code)
               \/ HasRestrictedKeyword(py_request.code))) =>
        /\ py_response.status = 403
        /\ ~py_execed

\* The code holds an assignment to the variable.
Assigns(code, var) ==
    \E i \in 1..Len(code) :
        \/ var = "result" /\ code[i] = "result=1"
        \/ var = "output" /\ code[i] = "output=2"

\* The code passed the keyword test and ran without error.
RanClean == py_execed /\ Exec(py_request.code).ok

MAX_TIMEOUT == 10

\* Command lines: nothing, a quote left open, a program that does not
\* exist, programs that run.
ShellCommands ==
    { << >>, << "'" >>, << "nosuchprogram" >>,
      << "ls" >>, << "echo", "hi" >>, << "false" >>, << "sleep", "30" >> }

\* shlex.split(command): the argument vector, or ValueError for a quote
\* that is not closed.
ShlexSplit(command) ==
    IF Contains(command, << "'" >>)
    THEN [ ok |-> FALSE, parts |-> << >> ]
    ELSE [ ok |-> TRUE, parts |-> command ]

\* The programs found on the system.
Programs == { "ls", "echo", "false", "sleep" }

\* The return code a program ends with when it is left to run.
ReturnCode(program) == IF program = "false" THEN 1 ELSE 0

NoShTrace == [ timed_out |-> FALSE, killed |-> FALSE, waited |-> FALSE ]
NoShResponse == [ status |-> 0, detail |-> "none" ]

ShIdle ==
    /\ sh_request = NoRequest
    /\ sh_pc = "idle"
    /\ sh_proc = "none"
    /\ sh_clock = 0
    /\ sh_trace = NoShTrace
    /\ sh_response = NoShResponse

\* A request has arrived and waits for its handler.
ShInit ==
    /\ sh_request \in { [ command |-> c ] : c \in ShellCommands }
    /\ sh_pc = "start"
    /\ sh_proc = "none"
    /\ sh_clock = 0
    /\ sh_trace = NoShTrace
    /\ sh_response = NoShResponse

\* Lines 20-28: split the command and spawn the process.  ValueError of
\* shlex.split and TypeError of an empty argument vector fall to
\* "except Exception" (500), FileNotFoundError gives 400.
sh_spawn ==
    /\ sh_pc = "start"
    /\ LET split == ShlexSplit(sh_request.command)
       IN  IF ~split.ok \/ split.parts = << >>
           THEN /\ sh_response' = [ status |-> 500, detail |-> "Internal Shell Error" ]
                /\ sh_pc' = "done"
                /\ UNCHANGED sh_proc
           ELSE IF split.parts[1] \notin Programs
           THEN /\ sh_response' = [ status |-> 400, detail |-> "Command not found" ]
                /\ sh_pc' = "done"
                /\ UNCHANGED sh_proc
           ELSE /\ sh_proc' = "running"
                /\ sh_pc' = "waiting"
                /\ UNCHANGED sh_response
    /\ UNCHANGED << sh_request, sh_clock, sh_trace >>
    /\ UNCHANGED << agentVars, clientVars, memVars, fsVars, fetchVars, pyVars >>

\* Time passes while wait_for(proc.communicate(), timeout=MAX_TIMEOUT) waits.
sh_tick ==
    /\ sh_pc = "waiting"
    /\ sh_clock < MAX_TIMEOUT
    /\ sh_clock' = sh_clock + 1
    /\ UNCHANGED << sh_request, sh_pc, sh_proc, sh_trace, sh_response >>
    /\ UNCHANGED << agentVars, clientVars, memVars, fsVars, fetchVars, pyVars >>

\* The process ends by itself.
sh_exit ==
    /\ sh_pc = "waiting"
    /\ sh_proc = "running"
    /\ sh_proc' = "exited"
    /\ UNCHANGED << sh_request, sh_pc, sh_clock, sh_trace, sh_response >>
    /\ UNCHANGED << agentVars, clientVars, memVars, fsVars, fetchVars, pyVars >>

\* Lines 30, 36-42: communicate() returns for a process that has ended (it
\* waits for the process, which reaps it); the response reports the return
\* code.
sh_complete ==
    /\ sh_pc = "waiting"
    /\ sh_proc = "exited"
    /\ sh_proc' = "reaped"
    /\ sh_pc' = "done"
    /\ sh_response' =
          IF ReturnCode(sh_request.command[1]) # 0
          THEN [ status |-> 200, detail |-> "error" ]
          ELSE [ status |-> 200, detail |-> "success" ]
    /\ UNCHANGED << sh_request, sh_clock, sh_trace >>
    /\ UNCHANGED << agentVars, clientVars, memVars, fsVars, fetchVars, pyVars >>

\* Faulty variant of sh_timeout: the 408 is raised without kill and wait.
sh_timeout_NoKill ==
    /\ sh_pc = "waiting"
    /\ sh_clock = MAX_TIMEOUT
    /\ sh_trace' = [ timed_out |-> TRUE, killed |-> FALSE, waited |-> FALSE ]
    /\ sh_pc' = "done"
    /\ sh_response' = [ status |-> 408, detail |-> "Command timed out" ]
    /\ UNCHANGED << sh_request, sh_clock, sh_proc >>
    /\ UNCHANGED << agentVars, clientVars, memVars, fsVars, fetchVars, pyVars >>

\* Lines 31-34 and 46-47: the timeout elapses before communicate() returned:
\* proc.kill(), await proc.wait(), HTTPException(408), which
\* "except HTTPException: raise" lets through.
sh_timeout ==
    /\ sh_pc = "waiting"
    /\ sh_clock = MAX_TIMEOUT
    /\ sh_trace' = [ timed_out |-> TRUE, killed |-> TRUE, waited |-> TRUE ]
    /\ sh_proc' = "reaped"
    /\ sh_pc' = "done"
    /\ sh_response' = [ status |-> 408, detail |-> "Command timed out" ]
    /\ UNCHANGED << sh_request, sh_clock >>
    /\ UNCHANGED << agentVars, clientVars, memVars, fsVars, fetchVars, pyVars >>

ShNext == sh_spawn \/ sh_tick \/ sh_exit \/ sh_complete \/ sh_timeout

\* C11: when the command has not finished as MAX_TIMEOUT elapses, the
\* process is killed and reaped before the response, which is 408; no
\* request completes with its process still alive or not waited for.
C11_TimeoutKillsAndReaps ==
    /\ sh_response # NoShResponse => sh_proc \in { "none", "reaped" }
    /\ (sh_pc = "done" /\ sh_trace.timed_out) =>
          /\ sh_trace.killed
          /\ sh_trace.waited
          /\ sh_response.status = 408

C11_Witness ==
    /\ sh_pc = "done"
    /\ sh_request.command = << "sleep", "30" >>
    /\ sh_clock = MAX_TIMEOUT
    /\ sh_trace.timed_out
    /\ sh_proc = "reaped"
    /\ sh_response.status = 408

\* ------------------------------------------------------------------------
\* One run of execute_primary_action
\* ------------------------------------------------------------------------
AgentInit ==
    /\ plan \in Plans
    /\ pc = "start"
    /\ action = NoAction
    /\ sent = << >>
    /\ received = << >>
    /\ result = NoResult
    /\ raised = "none"
    /\ post_clock = 0

\* Lines 124-160: parse the plan; return a diagnostic or go on to the request.
Extract ==
    /\ pc = "start"
    /\ LET parsed == ParseAction(plan)
       IN  CASE parsed.kind = "return" ->
                    /\ result' = parsed.value
                    /\ pc' = "done"
                    /\ UNCHANGED << action, raised >>
             [] parsed.kind = "raise" ->
                    /\ raised' = parsed.exc
                    /\ pc' = "done"
                    /\ UNCHANGED << action, result >>
             [] parsed.kind = "action" ->
                    /\ action' = parsed.action
                    /\ pc' = "dispatch"
                    /\ UNCHANGED << result, raised >>
    /\ UNCHANGED << plan, sent, received >>
    /\ UNCHANGED << backendVars, clientVars, memVars, post_clock >>

\* timeout=None: requests.post waits however long the backend stays silent.
NoTimeout == PostTimeout + 1

\* Faulty variant of Post: requests.post issued without a timeout.
Post_NoTimeout ==
    /\ pc = "dispatch"
    /\ sent' = Append(sent, [ url     |-> UrlOf(action.mcp),
                              json    |-> action.api_data,
                              timeout |-> NoTimeout ])
    /\ pc' = "waiting"
    /\ UNCHANGED << plan, action, received, result, raised >>
    /\ UNCHANGED << backendVars, clientVars, memVars, post_clock >>

\* Lines 164-166: build the url and issue requests.post.
Post ==
    /\ pc = "dispatch"
    /\ sent' = Append(sent, [ url     |-> UrlOf(action.mcp),
                              json    |-> action.api_data,
                              timeout |-> PostTimeout ])
    /\ pc' = "waiting"
    /\ UNCHANGED << plan, action, received, result, raised >>
    /\ UNCHANGED << backendVars, clientVars, memVars, post_clock >>

\* Faulty variant of Receive: any caught failure of the first request is retried once.
Receive_Retrying ==
    /\ pc = "waiting"
    /\ \E reply \in BackendReplies :
          LET e == TryBlockException(reply)
          IN  /\ received' = Append(received, reply)
              /\ IF e = NoExc
                 THEN /\ result' = ResponseJson(reply)
                      /\ pc' = "done"
                      /\ UNCHANGED raised
                 ELSE IF Caught(e.class) /\ Len(sent) < 2
                 THEN /\ pc' = "dispatch"
                      /\ UNCHANGED << result, raised >>
                 ELSE IF Caught(e.class)
                 THEN /\ result' = FailedToConnect(action.mcp,
                                                   UrlOf(action.mcp), e)
                      /\ pc' = "done"
                      /\ UNCHANGED raised
                 ELSE /\ raised' = e.class
                      /\ pc' = "done"
                      /\ UNCHANGED result
    /\ UNCHANGED << plan, action, sent >>
    /\ UNCHANGED << backendVars, clientVars, memVars, post_clock >>

\* Lines 166-172: the call comes back; the rest of the try block and the
\* except clause.
Receive ==
    /\ pc = "waiting"
    /\ \E reply \in BackendReplies :
          LET e == TryBlockException(reply)
          IN  /\ received' = Append(received, reply)
              /\ pc' = "done"
              /\ IF e = NoExc
                 THEN /\ result' = ResponseJson(reply)
                      /\ UNCHANGED raised
                 ELSE IF Caught(e.class)
                 THEN /\ result' = FailedToConnect(action.mcp,
                                                   UrlOf(action.mcp), e)
                      /\ UNCHANGED raised
                 ELSE /\ raised' = e.class
                      /\ UNCHANGED result
    /\ UNCHANGED << plan, action, sent >>
    /\ UNCHANGED << backendVars, clientVars, memVars, post_clock >>

AgentNext == Extract \/ Post \/ Receive

\* ------------------------------------------------------------------------
\* Several runs of execute_primary_action and calls of MCP.call in one
\* process, over the registries TOOLS and MCP.servers
\* ------------------------------------------------------------------------
NumRuns == 2

\* MCP.servers
MCP_servers ==
    [ python |-> "http://localhost:8004",
      fetch  |-> "http://localhost:8003",
      fs     |-> "http://localhost:8002",
      shell  |-> "http://localhost:8001" ]

\* The plan texts handed to the runs.
SessionPlans ==
    { PRIMARY_MARKER \o << "\n" >> \o FENCE_SQL \o << "\n", "SELECT", ";", "\n" >> \o FENCE,
      PRIMARY_MARKER \o << "\n", "SHELL_COMMAND", ":", "ls" >>,
      PRIMARY_MARKER \o << "\n", "Rationale" >>,
      << "ls" >> }

\* What a requests.post of a run or of MCP.call can meet.
SessionReplies ==
    { [ kind |-> "http", status |-> 200, json |-> TRUE ],
      [ kind |-> "http", status |-> 400, json |-> TRUE ],
      [ kind |-> "ConnectionError", status |-> 0, json |-> FALSE ] }

\* A run of execute_primary_action that has not started on its plan.
NewRun(plan_output) ==
    [ plan |-> plan_output, pc |-> "start", action |-> NoAction,
      sent |-> << >>, received |-> << >>, result |-> NoResult,
      raised |-> "none" ]

\* t['name'] == tool_name for some t of the list
Registered(registry, tool_name) ==
    \E i \in 1..Len(registry) : registry[i].name = tool_name

\* next(t for t in TOOLS if t['name'] == tool_name), on the list as it is
\* when the line runs
Resolve(registry, tool_name) ==
    registry[ CHOOSE i \in 1..Len(registry) :
                 /\ registry[i].name = tool_name
                 /\ \A j \in 1..(i - 1) : registry[j].name # tool_name ]

\* The list without its entries of that name.
Without(registry, tool_name) ==
    SelectSeq(registry, LAMBDA t : t.name # tool_name)

\* The arguments of MCP.call: with and without the optional keys, for names
\* in and out of MCP.servers, and without the key "tool_call".
McpNames == { "fs", "shell", "sqlite" }

ToolCalls ==
    { [ tool_call |-> n, endpoint |-> "/exec",
        payload |-> [ command |-> << "ls" >> ] ] : n \in McpNames }
    \cup { [ tool_call |-> n ] : n \in McpNames }
    \cup { [ endpoint |-> "/exec" ] }

NoCall == [ none |-> TRUE ]

\* return {"error": f"Unknown MCP tool: {name}"}
UnknownMcpTool(name) == [ key |-> "error", msg |-> "Unknown MCP tool", name |-> name ]

\* return {"error": str(e)}
McpError(e) == [ key |-> "error", msg |-> "str(e)", exc |-> e ]

ClientsIdle ==
    /\ tools = TOOLS
    /\ servers = MCP_servers
    /\ runs = << >>
    /\ mcp_call = NoCall

ClientsInit ==
    /\ tools = TOOLS
    /\ servers = MCP_servers
    /\ runs \in [ 1..NumRuns -> { NewRun(p) : p \in SessionPlans } ]
    /\ mcp_call = NoCall

\* Faulty variant of RunExtract: the entry found is taken out of TOOLS.
RunExtract_Consuming(i) ==
    /\ runs[i].pc = "start"
    /\ LET r == runs[i]
           parsed == ParseAction(r.plan)
       IN  CASE parsed.kind = "return" ->
                    /\ runs' = [ runs EXCEPT ![i] =
                                   [ r EXCEPT !.result = parsed.value,
                                              !.pc = "done" ] ]
                    /\ UNCHANGED tools
             [] parsed.kind = "raise" ->
                    /\ runs' = [ runs EXCEPT ![i] =
                                   [ r EXCEPT !.raised = parsed.exc,
                                              !.pc = "done" ] ]
                    /\ UNCHANGED tools
             [] parsed.kind = "action" ->
                    IF Registered(tools, parsed.action.tool_name)
                    THEN /\ runs' = [ runs EXCEPT ![i] =
                                        [ r EXCEPT
                                            !.action =
                                               [ parsed.action EXCEPT
                                                   !.mcp = Resolve(tools, parsed.action.tool_name) ],
                                            !.pc = "dispatch" ] ]
                         /\ tools' = Without(tools, parsed.action.tool_name)
                    ELSE /\ runs' = [ runs EXCEPT ![i] =
                                        [ r EXCEPT !.raised = "StopIteration",
                                                   !.pc = "done" ] ]
                         /\ UNCHANGED tools
    /\ UNCHANGED << servers, mcp_call >>
    /\ UNCHANGED << agentVars, backendVars, memVars >>

\* Lines 124-160 in run i: parse the plan, look the tool up in TOOLS; return a
\* diagnostic or go on to the request. next() on an exhausted generator
\* raises StopIteration.
RunExtract(i) ==
    /\ runs[i].pc = "start"
    /\ LET r == runs[i]
           parsed == ParseAction(r.plan)
       IN  CASE parsed.kind = "return" ->
                    /\ runs' = [ runs EXCEPT ![i] =
                                   [ r EXCEPT !.result = parsed.value,
                                              !.pc = "done" ] ]
                    /\ UNCHANGED tools
             [] parsed.kind = "raise" ->
                    /\ runs' = [ runs EXCEPT ![i] =
                                   [ r EXCEPT !.raised = parsed.exc,
                                              !.pc = "done" ] ]
                    /\ UNCHANGED tools
             [] parsed.kind = "action" ->
                    IF Registered(tools, parsed.action.tool_name)
                    THEN /\ runs' = [ runs EXCEPT ![i] =
                                        [ r EXCEPT
                                            !.action =
                                               [ parsed.action EXCEPT
                                                   !.mcp = Resolve(tools, parsed.action.tool_name) ],
                                            !.pc = "dispatch" ] ]
                         /\ UNCHANGED tools
                    ELSE /\ runs' = [ runs EXCEPT ![i] =
                                        [ r EXCEPT !.raised = "StopIteration",
                                                   !.pc = "done" ] ]
                         /\ UNCHANGED tools
    /\ UNCHANGED << servers, mcp_call >>
    /\ UNCHANGED << agentVars, backendVars, memVars >>

\* Lines 164-166 in run i.
RunPost(i) ==
    /\ runs[i].pc = "dispatch"
    /\ LET r == runs[i]
       IN  runs' = [ runs EXCEPT ![i] =
                       [ r EXCEPT
                           !.sent = Append(r.sent,
                                           [ url     |-> UrlOf(r.action.mcp),
                                             json    |-> r.action.api_data,
                                             timeout |-> PostTimeout ]),
                           !.pc = "waiting" ] ]
    /\ UNCHANGED << tools, servers, mcp_call >>
    /\ UNCHANGED << agentVars, backendVars, memVars >>

\* Faulty variant of RunReceive: the action the error value is built from is
\* kept in one place for all runs, so it may be that of another run.
RunReceive_Crossed(i) ==
    /\ runs[i].pc = "waiting"
    /\ \E reply \in SessionReplies, j \in 1..NumRuns :
          /\ runs[j].action # NoAction
          /\ LET r == runs[i]
                  e == TryBlockException(reply)
                  got == [ r EXCEPT !.received = Append(r.received, reply),
                                    !.pc = "done" ]
              IN  runs' = [ runs EXCEPT ![i] =
                              IF e = NoExc
                              THEN [ got EXCEPT !.result = ResponseJson(reply) ]
                              ELSE IF Caught(e.class)
                              THEN [ got EXCEPT !.result =
                                         FailedToConnect(runs[j].action.mcp,
                                                         UrlOf(runs[j].action.mcp), e) ]
                              ELSE [ got EXCEPT !.raised = e.class ] ]
    /\ UNCHANGED << tools, servers, mcp_call >>
    /\ UNCHANGED << agentVars, backendVars, memVars >>

\* Lines 166-172 in run i.
RunReceive(i) ==
    /\ runs[i].pc = "waiting"
    /\ \E reply \in SessionReplies :
          LET r == runs[i]
              e == TryBlockException(reply)
              got == [ r EXCEPT !.received = Append(r.received, reply),
                                !.pc = "done" ]
          IN  runs' = [ runs EXCEPT ![i] =
                          IF e = NoExc
                          THEN [ got EXCEPT !.result = ResponseJson(reply) ]
                          ELSE IF Caught(e.class)
                          THEN [ got EXCEPT !.result =
                                     FailedToConnect(r.action.mcp,
                                                     UrlOf(r.action.mcp), e) ]
                          ELSE [ got EXCEPT !.raised = e.class ] ]
    /\ UNCHANGED << tools, servers, mcp_call >>
    /\ UNCHANGED << agentVars, backendVars, memVars >>

\* Faulty variant of MCP_call: a name that is not in MCP.servers is entered
\* with a default address and the request goes there.
MCP_call_Registering ==
    /\ \E tool_call \in ToolCalls, reply \in SessionReplies :
          IF "tool_call" \notin DOMAIN tool_call
          THEN /\ mcp_call' = [ tool_call |-> tool_call, sent |-> << >>,
                                result |-> NoResult, raised |-> "KeyError" ]
               /\ UNCHANGED servers
          ELSE LET name == tool_call["tool_call"]
                   endpoint == Get(tool_call, "endpoint", "")
                   payload == Get(tool_call, "payload", << >>)
                   table == IF name \in DOMAIN servers
                            THEN servers
                            ELSE [ n \in DOMAIN servers \cup { name } |->
                                     IF n = name THEN "http://localhost:8000"
                                     ELSE servers[n] ]
                   url == << table[name], endpoint >>
                   e == TryBlockException(reply)
               IN  /\ mcp_call' =
                          [ tool_call |-> tool_call,
                            sent |-> << [ url |-> url, json |-> payload,
                                          timeout |-> PostTimeout ] >>,
                            result |-> IF e = NoExc THEN ResponseJson(reply)
                                       ELSE McpError(e),
                            raised |-> "none" ]
                   /\ servers' = table
    /\ UNCHANGED << tools, runs >>
    /\ UNCHANGED << agentVars, backendVars, memVars >>

\* MCP.call(tool_call), lines 21-35, the whole call: the lookup in
\* MCP.servers, the request and what is returned. tool_call["tool_call"]
\* raises KeyError when the key is missing.
MCP_call ==
    /\ \E tool_call \in ToolCalls, reply \in SessionReplies :
          IF "tool_call" \notin DOMAIN tool_call
          THEN mcp_call' = [ tool_call |-> tool_call, sent |-> << >>,
                             result |-> NoResult, raised |-> "KeyError" ]
          ELSE LET name == tool_call["tool_call"]
                   endpoint == Get(tool_call, "endpoint", "")
                   payload == Get(tool_call, "payload", << >>)
               IN  IF name \notin DOMAIN servers
                   THEN mcp_call' = [ tool_call |-> tool_call, sent |-> << >>,
                                      result |-> UnknownMcpTool(name),
                                      raised |-> "none" ]
                   ELSE LET url == << servers[name], endpoint >>
                            e == TryBlockException(reply)
                        IN  mcp_call' =
                               [ tool_call |-> tool_call,
                                 sent |-> << [ url |-> url, json |-> payload,
                                               timeout |-> PostTimeout ] >>,
                                 result |-> IF e = NoExc
                                            THEN ResponseJson(reply)
                                            ELSE McpError(e),
                                 raised |-> "none" ]
    /\ UNCHANGED servers
    /\ UNCHANGED << tools, runs >>
    /\ UNCHANGED << agentVars, backendVars, memVars >>

\* Lines 122-172 as one call on its own: what execute_primary_action sends
\* and how it ends for a plan text and the replies its requests meet.
RunAlone(plan_output, replies) ==
    LET parsed == ParseAction(plan_output)
    IN  IF parsed.kind = "return"
        THEN [ sent |-> << >>, result |-> parsed.value, raised |-> "none" ]
        ELSE IF parsed.kind = "raise"
        THEN [ sent |-> << >>, result |-> NoResult, raised |-> parsed.exc ]
        ELSE LET mcp == parsed.action.mcp
                 request == [ url     |-> UrlOf(mcp),
                              json    |-> parsed.action.api_data,
                              timeout |-> PostTimeout ]
                 e == TryBlockException(replies[1])
             IN  IF e = NoExc
                 THEN [ sent |-> << request >>,
                        result |-> ResponseJson(replies[1]),
                        raised |-> "none" ]
                 ELSE IF Caught(e.class)
                 THEN [ sent |-> << request >>,
                        result |-> FailedToConnect(mcp, UrlOf(mcp), e),
                        raised |-> "none" ]
                 ELSE [ sent |-> << request >>, result |-> NoResult,
                        raised |-> e.class ]

ClientsNext ==
    \/ \E i \in 1..NumRuns : RunExtract(i) \/ RunPost(i) \/ RunReceive(i)
    \/ MCP_call

\* ------------------------------------------------------------------------
\* One run of execute_primary_action with the wait inside requests.post made
\* explicit: the backend may answer at any moment or stay silent
\* ------------------------------------------------------------------------
LiveInit ==
    /\ plan \in SessionPlans
    /\ pc = "start"
    /\ action = NoAction
    /\ sent = << >>
    /\ received = << >>
    /\ result = NoResult
    /\ raised = "none"
    /\ post_clock = 0

\* Line 166, the backend silent for one more second: the call goes on
\* waiting.
AwaitTick ==
    /\ pc = "waiting"
    /\ post_clock < PostTimeout
    /\ post_clock' = post_clock + 1
    /\ UNCHANGED << plan, pc, action, sent, received, result, raised >>
    /\ UNCHANGED << backendVars, clientVars, memVars >>

\* What lines 166-172 make of a reply.
Returned(reply) ==
    LET e == TryBlockException(reply)
    IN  /\ received' = Append(received, reply)
        /\ pc' = "done"
        /\ IF e = NoExc
           THEN /\ result' = ResponseJson(reply)
                /\ UNCHANGED raised
           ELSE IF Caught(e.class)
           THEN /\ result' = FailedToConnect(action.mcp, UrlOf(action.mcp), e)
                /\ UNCHANGED raised
           ELSE /\ raised' = e.class
                /\ UNCHANGED result

\* Lines 166-172, the backend answers or the connection fails before the
\* timeout is up.
ReceiveInTime ==
    /\ pc = "waiting"
    /\ \E reply \in BackendReplies :
          /\ reply.kind # "Timeout"
          /\ Returned(reply)
    /\ UNCHANGED << plan, action, sent, post_clock >>
    /\ UNCHANGED << backendVars, clientVars, memVars >>

\* Lines 166-172, the timeout of the request is up: requests.post raises
\* Timeout.
ReceiveTimeout ==
    /\ pc = "waiting"
    /\ post_clock = sent[Len(sent)].timeout
    /\ Returned([ kind |-> "Timeout", status |-> 0, json |-> FALSE ])
    /\ UNCHANGED << plan, action, sent, post_clock >>
    /\ UNCHANGED << backendVars, clientVars, memVars >>

LiveNext == Extract \/ Post \/ AwaitTick \/ ReceiveInTime \/ ReceiveTimeout

\* A step of Extract as pc shows it: Extract is enabled whenever pc = "start",
\* and no other action moves pc away from "start".
ExtractStep == pc = "start" /\ pc' \in { "dispatch", "done" }

\* The function is straight-line synchronous code, so its own steps are
\* taken; time passes; a timeout that is up fires. Nothing makes the backend
\* answer.
LiveFairness ==
    /\ WF_pc(ExtractStep)
    /\ WF_vars(Post)
    /\ WF_vars(AwaitTick)
    /\ WF_vars(ReceiveTimeout)

\* ------------------------------------------------------------------------
\* memory/memory_db.py : MemoryDB
\* ------------------------------------------------------------------------
MaxMemories == 3

\* The content strings handed to insert_memory and the keywords handed to
\* search_by_text, as symbol sequences.
MemContents == { << "a" >>, << "A", "b" >> }

MemKeywords == { << "a" >>, << "b" >> }

\* The ids handed to tombstone_memory: of rows there are, will be, or never are.
MemIds == 1..(MaxMemories + 1)

\* LIKE folds the case of ASCII letters.
FoldSym(c) == CASE c = "A" -> "a" [] c = "B" -> "b" [] OTHER -> c

Fold(t) == [ i \in 1..Len(t) |-> FoldSym(t[i]) ]

\* content LIKE '%keyword%'
Like(content, keyword) == Contains(Fold(content), Fold(keyword))

\* Faulty variant of FetchAll: the is_deleted test left out.
FetchAll_IgnoringFlag(rows, include_deleted) == rows

\* fetch_all: SELECT * FROM memories [WHERE is_deleted=0]
FetchAll(rows, include_deleted) ==
    IF include_deleted THEN rows ELSE { r \in rows : r.is_deleted = 0 }

\* search_by_text: SELECT id, content, timestamp FROM memories
\*                 WHERE content LIKE ? AND is_deleted=0
SearchByText(rows, keyword) ==
    { [ id |-> r.id, content |-> r.content ] :
          r \in { q \in rows : Like(q.content, keyword) /\ q.is_deleted = 0 } }

\* UPDATE memories SET is_deleted=1 WHERE id=?
Tombstoned(rows, memory_id) ==
    { IF r.id = memory_id THEN [ r EXCEPT !.is_deleted = 1 ] ELSE r : r \in rows }

NoMemCall == [ op |-> "none", returned |-> {} ]

\* __init__ on a new file: the table created, empty.
MemIdle ==
    /\ mem_table = {}
    /\ mem_seq = 0
    /\ mem_trace = [ called |-> {}, found |-> {} ]
    /\ mem_last = NoMemCall

MemInit == MemIdle

\* insert_memory(content): the INSERT and the commit, or an exception of
\* either caught and logged with nothing inserted.
insert_memory ==
    /\ mem_seq < MaxMemories
    /\ \E content \in MemContents, ok \in BOOLEAN :
          IF ok
          THEN /\ mem_table' = mem_table \cup
                     { [ id |-> mem_seq + 1, content |-> content, is_deleted |-> 0 ] }
               /\ mem_seq' = mem_seq + 1
               /\ mem_last' = [ op |-> "insert_memory", returned |-> {} ]
          ELSE /\ mem_last' = [ op |-> "insert_memory failed", returned |-> {} ]
               /\ UNCHANGED << mem_table, mem_seq >>
    /\ UNCHANGED mem_trace
    /\ UNCHANGED << agentVars, backendVars, clientVars >>

\* fetch_all(include_deleted=False)
fetch_all ==
    /\ \E include_deleted \in BOOLEAN :
          mem_last' = [ op |-> IF include_deleted THEN "fetch_all(include_deleted)"
                               ELSE "fetch_all",
                        returned |-> FetchAll(mem_table, include_deleted) ]
    /\ UNCHANGED << mem_table, mem_seq, mem_trace >>
    /\ UNCHANGED << agentVars, backendVars, clientVars >>

\* search_by_text(keyword)
search_by_text ==
    /\ \E keyword \in MemKeywords :
          mem_last' = [ op |-> "search_by_text",
                        returned |-> SearchByText(mem_table, keyword) ]
    /\ UNCHANGED << mem_table, mem_seq, mem_trace >>
    /\ UNCHANGED << agentVars, backendVars, clientVars >>

\* tombstone_memory(memory_id), also as the tool of memory/memory.py
tombstone_memory ==
    /\ \E memory_id \in MemIds :
          /\ mem_table' = Tombstoned(mem_table, memory_id)
          /\ mem_trace' =
                [ called |-> mem_trace.called \cup { memory_id },
                  found  |-> mem_trace.found \cup
                                { r.id : r \in { q \in mem_table : q.id = memory_id } } ]
    /\ mem_last' = [ op |-> "tombstone_memory", returned |-> {} ]
    /\ UNCHANGED mem_seq
    /\ UNCHANGED << agentVars, backendVars, clientVars >>

MemNext == insert_memory \/ fetch_all \/ search_by_text \/ tombstone_memory

\* The ids of the rows a call returned.
IdsOf(rows) == { r.id : r \in rows }

\* What the calls may and may not return when the ids in gone are those of
\* the tombstoned rows.
SoftDeleted(gone) ==
    /\ mem_last.op = "fetch_all" =>
           /\ IdsOf(mem_last.returned) \cap gone = {}
           /\ IdsOf(mem_table) \ gone \subseteq IdsOf(mem_last.returned)
    /\ mem_last.op = "search_by_text" =>
           IdsOf(mem_last.returned) \cap gone = {}
    /\ mem_last.op = "fetch_all(include_deleted)" =>
           gone \cap IdsOf(mem_table) \subseteq IdsOf(mem_last.returned)

\* No step removes a row or takes its is_deleted flag back.
RowsKept ==
    \A r \in mem_table :
        \E q \in mem_table' : /\ q.id = r.id
                              /\ q.content = r.content
                              /\ q.is_deleted >= r.is_deleted

\* C24 as stated: once tombstone_memory(id) has been called, the row with
\* that id is not returned by fetch_all() or search_by_text, is returned by
\* fetch_all(include_deleted=True), no step removes a row or resets its flag,
\* and rows never tombstoned stay visible.
C24_TombstoneCalledHidesId ==
    /\ [] SoftDeleted(mem_trace.called)
    /\ [][RowsKept]_vars

\* C24, amended: the same of tombstone_memory(id) called with the id of a row
\* that exists at the call; a call with an id no row has changes nothing, and
\* a row inserted later under that id is visible.
C24_TombstonedRowHidden ==
    /\ [] SoftDeleted(mem_trace.found)
    /\ [] (mem_trace.found \subseteq IdsOf(mem_table))
    /\ [] (\A r \in mem_table : r.is_deleted = 1 <=> r.id \in mem_trace.found)
    /\ [][RowsKept]_vars

C24_Witness ==
    /\ mem_last.op = "fetch_all"
    /\ mem_trace.found = { 1 }
    /\ mem_trace.called = { 1 }
    /\ IdsOf(mem_table) = { 1, 2 }
    /\ IdsOf(mem_last.returned) = { 2 }

\* ------------------------------------------------------------------------
\* Specifications: the agent's run, and each backend service on its own
\* ------------------------------------------------------------------------
Init == AgentInit /\ FsIdle /\ FetchIdle /\ PyIdle /\ ShIdle /\ ClientsIdle /\ MemIdle

Spec == Init /\ [][AgentNext]_vars

InitFs == FsInit /\ AgentIdle /\ FetchIdle /\ PyIdle /\ ShIdle /\ ClientsIdle /\ MemIdle

SpecFs == InitFs /\ [][FsNext]_vars

InitFetch == FetchInit /\ AgentIdle /\ FsIdle /\ PyIdle /\ ShIdle /\ ClientsIdle /\ MemIdle

SpecFetch == InitFetch /\ [][FetchNext]_vars

InitPy == PyInit /\ AgentIdle /\ FsIdle /\ FetchIdle /\ ShIdle /\ ClientsIdle /\ MemIdle

SpecPy == InitPy /\ [][PyNext]_vars

InitShell == ShInit /\ AgentIdle /\ FsIdle /\ FetchIdle /\ PyIdle /\ ClientsIdle /\ MemIdle

SpecShell == InitShell /\ [][ShNext]_vars

InitClients ==
    ClientsInit /\ AgentIdle /\ FsIdle /\ FetchIdle /\ PyIdle /\ ShIdle /\ MemIdle

SpecClients == InitClients /\ [][ClientsNext]_vars

InitLive == LiveInit /\ FsIdle /\ FetchIdle /\ PyIdle /\ ShIdle /\ ClientsIdle /\ MemIdle

SpecLive == InitLive /\ [][LiveNext]_vars /\ LiveFairness

InitMem ==
    MemInit /\ AgentIdle /\ FsIdle /\ FetchIdle /\ PyIdle /\ ShIdle /\ ClientsIdle

SpecMem == InitMem /\ [][MemNext]_vars

\* ------------------------------------------------------------------------
\* Properties of execute_primary_action
\* ------------------------------------------------------------------------
\* The six outcomes of a run, read off the returned value.
OutcomeOf(r) ==
    CASE r.key = "body" -> "Success"
      [] r.key = "result" /\ r.msg = "Could not parse PRIMARY ACTION" -> "ParseFailure"
      [] r.key = "result" /\ r.msg = "rationale only" -> "NoExecutableAction"
      [] r.key = "result" /\ r.msg = "unknown command format" -> "UnknownFormat"
      [] r.key = "error" /\ r.exc.class = "HTTPError" -> "BackendError"
      [] r.key = "error" /\ r.exc.class # "HTTPError" -> "DispatchError"
      [] OTHER -> "none"

Outcomes == { "Success", "ParseFailure", "NoExecutableAction",
              "UnknownFormat", "DispatchError", "BackendError" }

\* The action block of the plan: the stripped text of its primary section.
BlockOf(p) == Strip(PySplit(PySplit(p, PRIMARY_MARKER)[2], FALLBACK_MARKER)[1])

EndsWith(s, m) == MatchAt(s, m, Len(s) - Len(m) + 1)

\* The block is a fenced block opened with the given fence.
IsFenced(block, open) ==
    /\ Len(block) >= Len(open) + Len(FENCE)
    /\ StartsWith(block, open)
    /\ EndsWith(block, FENCE)

\* The text between the opening and the closing fence.
InsideFence(block, open) == SubSeq(block, Len(open) + 1, Len(block) - Len(FENCE))

\* The texts a request payload carries.
PayloadTexts(json) == { json[k] : k \in DOMAIN json }

\* The plan with its fallback section (the first fallback marker after the
\* first primary marker, and all that follows) deleted.
WithoutFallback(p) ==
    LET i == Find(p, PRIMARY_MARKER)
        j == IF i = 0 THEN 0 ELSE Find(SubSeq(p, i + 1, Len(p)), FALLBACK_MARKER)
    IN  IF j = 0 THEN p ELSE SubSeq(p, 1, i + j - 1)

\* C1: a plan text without the primary-action marker ends in ParseFailure
\* and no request is ever issued during that run.
C1_NoMarkerIsParseFailure ==
    ~Contains(plan, PRIMARY_MARKER) =>
        /\ sent = << >>
        /\ pc \in { "start", "done" }
        /\ pc = "done" => /\ raised = "none"
                          /\ OutcomeOf(result) = "ParseFailure"

C1_Witness ==
    /\ pc = "done"
    /\ ~Contains(plan, PRIMARY_MARKER)
    /\ StartsWith(plan, FENCE_SQL)
    /\ OutcomeOf(result) = "ParseFailure"

\* C2: whatever the plan text and the backend's behaviour, a finished run has
\* returned exactly one value, one of the six outcomes, and no exception
\* escaped it.
C2_OneResultNoException ==
    /\ raised = "none"
    /\ pc = "done" <=> result # NoResult
    /\ pc = "done" => OutcomeOf(result) \in Outcomes

C2_Witness ==
    /\ pc = "done"
    /\ Len(received) = 1
    /\ received[1].kind = "http" /\ received[1].status = 200
    /\ ~received[1].json
    /\ result.key = "error"

\* C3: a fenced query block yields a SYSTEM_SQLITE action whose query holds
\* no fence marker and does not end with the statement terminator.
C3_FencedQueryCleaned ==
    (pc # "start" /\ Contains(plan, PRIMARY_MARKER)
        /\ IsFenced(BlockOf(plan), FENCE_SQL)) =>
        /\ action.tool_name = "SYSTEM_SQLITE"
        /\ DOMAIN action.api_data = { "query" }
        /\ ~Contains(action.api_data.query, FENCE)
        /\ ~EndsWith(action.api_data.query, << ";" >>)

\* C4: a fenced shell block yields a SHELL_COMMAND action whose command is
\* the text inside the fence, trimmed, whatever that text contains.
C4_FencedShellExact ==
    (pc # "start" /\ Contains(plan, PRIMARY_MARKER)
        /\ IsFenced(BlockOf(plan), FENCE_BASH)) =>
        /\ action.tool_name = "SHELL_COMMAND"
        /\ DOMAIN action.api_data = { "command" }
        /\ action.api_data.command = Strip(InsideFence(BlockOf(plan), FENCE_BASH))

\* C5: only the primary section is executed: at most one request per run,
\* no word of the fallback section in its payload, and the request is the
\* one the plan without its fallback section gives.
C5_OnlyPrimaryExecuted ==
    /\ Len(sent) <= 1
    /\ \A i \in 1..Len(sent) :
          /\ \A t \in PayloadTexts(sent[i].json) :
                \A k \in 1..Len(t) : t[k] \notin FallbackWords
          /\ ParseAction(WithoutFallback(plan)).kind = "action"
          /\ sent[i].json = ParseAction(WithoutFallback(plan)).action.api_data

C5_Witness ==
    /\ pc = "done"
    /\ Len(sent) = 1
    /\ WithoutFallback(plan) # plan
    /\ \E k \in 1..Len(plan) : plan[k] \in FallbackWords

\* C6: after a 400 answer to the first request the run sends exactly one
\* further request, with the payload cleaned of a trailing terminator.
C6_RetryOnceOnClientError ==
    (pc = "done" /\ Len(received) >= 1
        /\ received[1].kind = "http" /\ received[1].status = 400) =>
        /\ Len(sent) = 2
        /\ \A k \in DOMAIN sent[2].json :
              ~EndsWith(sent[2].json[k], << ";" >>)

\* A policy rejection, a rate-limit / unavailable answer, or a transport
\* failure.
IsFinalFailure(reply) ==
    \/ reply.kind \in { "ConnectionError", "Timeout" }
    \/ reply.kind = "http" /\ reply.status \in { 403, 429, 503 }

\* C7: after a policy rejection (403), a rate-limit or unavailable answer, or
\* a transport failure, no further request is sent: the run is over and its
\* result is that failure.
C7_NoRequestAfterFinalFailure ==
    \A i \in 1..Len(received) :
        IsFinalFailure(received[i]) =>
            /\ Len(sent) = i
            /\ pc = "done"
            /\ result.key = "error"
            /\ IF received[i].kind = "http"
               THEN result.exc = [ class |-> "HTTPError",
                                   status |-> received[i].status ]
               ELSE result.exc.class = received[i].kind

C7_Witness ==
    /\ pc = "done"
    /\ Len(sent) = 1
    /\ Len(received) = 1
    /\ received[1].kind = "http" /\ received[1].status = 403
    /\ result.key = "error"

\* C13: the fence chooses the tool: a block that starts with the bash fence is
\* routed to the shell tool even when it mentions SYSTEM_SQLITE, and a block
\* that starts with the sql fence to the query tool; the bare tool name
\* decides only when no fence matched.
C13_FenceTakesPrecedence ==
    (Contains(plan, PRIMARY_MARKER) /\ pc # "start") =>
        /\ StartsWith(BlockOf(plan), FENCE_BASH) =>
               action.tool_name = "SHELL_COMMAND"
        /\ StartsWith(BlockOf(plan), FENCE_SQL) =>
               action.tool_name = "SYSTEM_SQLITE"

\* The block reads as prose reasoning: "rationale" in it, whatever the case.
IsProse(block) == Contains(Lower(block), << "rationale" >>)

\* C14: a primary-action block that is prose reasoning ends the run in
\* NoExecutableAction and no request is sent, also when the prose mentions a
\* tool's name.
C14_RationaleNeverDispatched ==
    (Contains(plan, PRIMARY_MARKER) /\ IsProse(BlockOf(plan))) =>
        /\ sent = << >>
        /\ pc \in { "start", "done" }
        /\ pc = "done" => OutcomeOf(result) = "NoExecutableAction"

\* What is left of a block once fences, a tool-name prefix and surrounding
\* whitespace are taken away.
StrippedCommand(block) ==
    LET RemoveAll(t, ms) ==
            LET Rm[i \in 0..Len(ms)] ==
                    IF i = 0 THEN t ELSE PyReplace(Rm[i - 1], ms[i], << >>)
            IN  Rm[Len(ms)]
    IN  Strip(RemoveAll(block, << FENCE_SQL, FENCE_BASH, FENCE,
                                  << "SYSTEM_SQLITE", ":" >>,
                                  << "SHELL_COMMAND", ":" >> >>))

\* C15: a block that opens with a fence or names a tool and whose command
\* text is empty once stripped ends the run in NoExecutableAction, and no
\* request ever carries an empty command or query.
C15_EmptyCommandNeverSent ==
    /\ \A i \in 1..Len(sent) :
           \A text \in PayloadTexts(sent[i].json) : text # << >>
    /\ ( /\ pc = "done"
         /\ Contains(plan, PRIMARY_MARKER)
         /\ \/ StartsWith(BlockOf(plan), FENCE_SQL)
            \/ StartsWith(BlockOf(plan), FENCE_BASH)
            \/ Contains(BlockOf(plan), << "SYSTEM_SQLITE" >>)
            \/ Contains(BlockOf(plan), << "SHELL_COMMAND" >>)
         /\ StrippedCommand(BlockOf(plan)) = << >> )
           => OutcomeOf(result) = "NoExecutableAction"

\* The block has no fence, no name of a tool of TOOLS and no prose keyword.
IsUnrecognised(block) ==
    /\ ~Contains(block, FENCE)
    /\ \A i \in 1..Len(TOOLS) : ~Contains(block, << TOOLS[i].name >>)
    /\ ~Contains(Lower(block), << "rationale" >>)
    /\ ~Contains(Lower(block), << "no command" >>)

\* C16: a primary-action block with no fence, no known tool name and no prose
\* keyword ends the run in UnknownFormat, the result carries the raw block,
\* no tool is chosen and no request is sent.
C16_UnknownFormatCarriesBlock ==
    (Contains(plan, PRIMARY_MARKER) /\ IsUnrecognised(BlockOf(plan))) =>
        /\ sent = << >>
        /\ action = NoAction
        /\ pc \in { "start", "done" }
        /\ pc = "done" => /\ OutcomeOf(result) = "UnknownFormat"
                          /\ result.block = BlockOf(plan)

C16_Witness ==
    /\ pc = "done"
    /\ Contains(plan, PRIMARY_MARKER)
    /\ BlockOf(plan) = << "SELECT", ";" >>
    /\ OutcomeOf(result) = "UnknownFormat"
    /\ result.block = << "SELECT", ";" >>
    /\ sent = << >>

\* C18: the result tells the two failure kinds apart: an error status answered
\* by the backend gives an error result classified by that status and not
\* worded as a connection failure; a request that never reached the backend
\* gives an error result with the failure class and the attempted url.
C18_FailureKindsDistinguished ==
    (pc = "done" /\ received # << >>) =>
        LET reply == received[Len(received)]
        IN  /\ (reply.kind = "http" /\ RaiseForStatus(reply)) =>
                   /\ result.key = "error"
                   /\ result.exc.status = reply.status
                   /\ result.msg # "Failed to connect to"
            /\ reply.kind # "http" =>
                   /\ result.key = "error"
                   /\ result.exc.class = reply.kind
                   /\ result.url = sent[Len(sent)].url

\* C19: every request goes to the url of the tool chosen and carries that
\* tool's payload: command alone for the shell tool, query together with
\* db_name "system" for the query tool.
C19_PayloadShapeOfTool ==
    \A i \in 1..Len(sent) :
        /\ sent[i].url = UrlOf(ToolByName(action.tool_name))
        /\ action.tool_name = "SHELL_COMMAND" =>
               DOMAIN sent[i].json = { "command" }
        /\ action.tool_name = "SYSTEM_SQLITE" =>
               /\ DOMAIN sent[i].json = { "query", "db_name" }
               /\ sent[i].json.db_name = "system"

\* What extraction gave in a run: the tool and the payload, or the diagnostic.
SameExtraction(a, b) ==
    /\ a.action.tool_name = b.action.tool_name
    /\ a.action.tool_name # "none" => a.action.api_data = b.action.api_data
    /\ a.action.tool_name = "none" => /\ a.result = b.result
                                      /\ a.raised = b.raised

\* C12: extraction is deterministic and stateless: two runs given the same
\* plan text, in whatever order they and other calls take their steps,
\* extract the same tool name and payload, or the same diagnostic.
C12_ExtractionStateless ==
    \A i \in 1..NumRuns, j \in 1..NumRuns :
        ( /\ runs[i].plan = runs[j].plan
          /\ runs[i].pc # "start"
          /\ runs[j].pc # "start" ) => SameExtraction(runs[i], runs[j])

C12_Witness ==
    /\ runs[1].plan = runs[2].plan
    /\ runs[1].pc = "done" /\ runs[1].received # << >>
    /\ mcp_call # NoCall
    /\ runs[2].pc = "dispatch"
    /\ runs[2].action.tool_name = "SYSTEM_SQLITE"
    /\ runs[2].action.api_data = runs[1].action.api_data

\* C17: resolving a name is a lookup in a fixed table: TOOLS and MCP.servers
\* are never changed by a run or a call, a known name always gives the same
\* address and endpoint, and a name that is not in MCP.servers gives the
\* "Unknown MCP tool" error result without any request being sent.
C17_RegistryFixedLookup ==
    /\ tools = TOOLS
    /\ servers = MCP_servers
    /\ \A i \in 1..NumRuns : \A k \in 1..Len(runs[i].sent) :
           runs[i].sent[k].url = UrlOf(ToolByName(runs[i].action.tool_name))
    /\ (mcp_call # NoCall /\ mcp_call.raised = "none") =>
           LET name == mcp_call.tool_call["tool_call"]
           IN  IF name \in DOMAIN MCP_servers
               THEN /\ Len(mcp_call.sent) = 1
                    /\ mcp_call.sent[1].url =
                          << MCP_servers[name],
                             Get(mcp_call.tool_call, "endpoint", "") >>
               ELSE /\ mcp_call.sent = << >>
                    /\ mcp_call.result = UnknownMcpTool(name)

C17_Witness ==
    /\ mcp_call # NoCall
    /\ mcp_call.raised = "none"
    /\ mcp_call.tool_call["tool_call"] = "sqlite"
    /\ mcp_call.sent = << >>
    /\ mcp_call.result = UnknownMcpTool("sqlite")
    /\ \E i \in 1..NumRuns : runs[i].sent # << >>

\* C22: runs that interleave do not interfere: a finished run has sent and
\* returned what execute_primary_action gives on its own for the same plan
\* text and the same backend replies.
C22_RunsDoNotInterfere ==
    \A i \in 1..NumRuns :
        runs[i].pc = "done" =>
            LET alone == RunAlone(runs[i].plan, runs[i].received)
            IN  /\ runs[i].sent = alone.sent
                /\ runs[i].result = alone.result
                /\ runs[i].raised = alone.raised

C22_Witness ==
    /\ runs[1].pc = "done"
    /\ runs[1].action.tool_name = "SYSTEM_SQLITE"
    /\ runs[1].received = << [ kind |-> "http", status |-> 400, json |-> TRUE ] >>
    /\ runs[1].result.key = "error"
    /\ runs[2].pc = "waiting"
    /\ runs[2].action.tool_name = "SHELL_COMMAND"

\* C23: every run ends and returns a value: each request carries a bounded
\* timeout, a backend that stays silent for that long gives a DispatchError
\* result, and from the parsing and the dispatching states a finished run
\* with a result is always reached.
C23_RunTerminates ==
    /\ [](\A i \in 1..Len(sent) : sent[i].timeout \in 1..PostTimeout)
    /\ []((pc = "done" /\ received # << >>
                       /\ received[Len(received)].kind = "Timeout")
            => OutcomeOf(result) = "DispatchError")
    /\ (pc \in { "start", "dispatch", "waiting" })
          ~> (pc = "done" /\ OutcomeOf(result) \in Outcomes)

C23_Witness ==
    /\ pc = "done"
    /\ post_clock = PostTimeout
    /\ received = << [ kind |-> "Timeout", status |-> 0, json |-> FALSE ] >>
    /\ OutcomeOf(result) = "DispatchError"

====
